---- MODULE Spec2Model ----
(***************************************************************************)
(* Model of the SL-style camera modal operator (src/__init__.py):          *)
(* SL_CAMERA_OT_modal with its invoke / modal / finish lifecycle, the      *)
(* mode switching, the click and drag handlers and the timed transition.   *)
(*                                                                         *)
(* Floats are fixed-point integers:                                        *)
(*   lengths and coordinates  in 1/100 scene units   (0.01 -> 1)           *)
(*   angles                   in milliradians        (math.pi -> 3142)     *)
(*   sensitivities            in 1/1000              (0.004 -> 4)          *)
(*   time                     in milliseconds                              *)
(*   progress, eased, sines   in 1/1000              (1.0 -> 1000)         *)
(* A rotation (quaternion) is the direction the camera looks along, as a   *)
(* pair <<azimuth, polar>> of that direction; roll is not modelled.        *)
(***************************************************************************)
EXTENDS Integers, Sequences, FiniteSets, TLC

VARIABLES
    self,   \* the operator instance's attributes
    ctx,    \* the host: viewport, scene camera, window manager, clock, input devices
    pc,     \* "idle" | "modal" | "finished" | "cancelled" | "crashed"
    event,  \* the event handled by the last step
    was     \* what the last step started from: some attributes of self before it

vars == <<self, ctx, pc, event, was>>

\* ------------------------------------------------------------------ bounds

\* input events and host interventions in one session, timer events not counted
MaxEvents == 1
\* the clock's horizon, milliseconds after the session starts
MaxTime == 300

\* time that passes between two timer events
TickSteps == {50, 100}
\* region-relative pointer positions
MousePositions == { <<10, 0>>, <<10, 5>>, <<0, 1000>> }
\* by how much the system clock is set back
SetBackSteps == {200}
\* scene points a raycast can hit
HitPoints == { <<300, 0, 200>>, <<0, 0, 100>> }

\* ------------------------------------------------------------ fixed point

None == <<>>

PI == 3142
HalfPi == PI \div 2
TwoPi == 2 * PI

Max(a, b) == IF a >= b THEN a ELSE b
Min(a, b) == IF a <= b THEN a ELSE b
Abs(a) == IF a < 0 THEN -a ELSE a

\* piecewise-linear reading of a table << <<x1, y1>>, ..., <<xn, yn>> >>, x1 <= x <= xn
Between(p, q, x) == p[2] + ((q[2] - p[2]) * (x - p[1])) \div (q[1] - p[1])
Segment(table, i, x) == Between(table[i], table[i + 1], x)
Interp(table, x) ==
    Segment(table,
            CHOOSE k \in 1..(Len(table) - 1) : table[k][1] <= x /\ x <= table[k + 1][1],
            x)

SinTable == << <<0, 0>>, <<175, 174>>, <<349, 342>>, <<524, 500>>, <<698, 643>>,
               <<873, 766>>, <<1047, 866>>, <<1222, 940>>, <<1396, 985>>, <<1571, 1000>> >>
AcosTable == << <<0, 1571>>, <<174, 1396>>, <<342, 1222>>, <<500, 1047>>, <<643, 873>>,
                <<766, 698>>, <<866, 524>>, <<940, 349>>, <<966, 262>>, <<985, 175>>,
                <<996, 87>>, <<1000, 0>> >>
AtanTable == << <<0, 0>>, <<87, 87>>, <<176, 175>>, <<268, 262>>, <<364, 349>>,
                <<466, 436>>, <<577, 524>>, <<700, 611>>, <<839, 698>>, <<1000, 785>> >>

\* math.sin, math.cos: milliradians -> 1/1000
FirstQuadrant(m) ==
    IF m <= HalfPi THEN m
    ELSE IF m <= PI THEN PI - m
    ELSE IF m <= PI + HalfPi THEN m - PI
    ELSE TwoPi - m
SinOfReduced(m) == (IF m <= PI THEN 1 ELSE -1) * Interp(SinTable, FirstQuadrant(m))
Sin[a \in Int] == SinOfReduced(a % TwoPi)
Cos[a \in Int] == Sin[a + HalfPi]

\* math.acos: 1/1000 in [-1000, 1000] -> milliradians in [0, PI]
AcosOfAbs(c, a) == IF c >= 0 THEN a ELSE PI - a
Acos[c \in Int] == AcosOfAbs(c, Interp(AcosTable, Abs(c)))

\* math.atan2: milliradians in (-PI, PI]
Atan2InQuadrant(y, x, first) ==
    IF y < 0 THEN (IF x < 0 THEN first - PI ELSE -first)
    ELSE (IF x < 0 THEN PI - first ELSE first)
AtanOfRatio(lo, hi) == IF hi = 0 THEN 0 ELSE Interp(AtanTable, (lo * 1000) \div hi)
Atan2[y \in Int, x \in Int] ==
    Atan2InQuadrant(y, x,
        IF Abs(y) <= Abs(x) THEN AtanOfRatio(Abs(y), Abs(x))
        ELSE HalfPi - AtanOfRatio(Abs(x), Abs(y)))

\* math.radians of whole degrees
Radians(deg) == (deg * PI) \div 180

\* the integer square root of n by bisection of lo..hi
IsqrtIter[n \in Nat, lo \in Nat, hi \in Nat] ==
    IF lo >= hi THEN lo
    ELSE IF ((lo + hi + 1) \div 2) * ((lo + hi + 1) \div 2) <= n
         THEN IsqrtIter[n, (lo + hi + 1) \div 2, hi]
         ELSE IsqrtIter[n, lo, (lo + hi + 1) \div 2 - 1]
\* 46340 is the largest root of a 32-bit square
Isqrt[n \in Nat] == IsqrtIter[n, 0, Min(n, 46340)]

\* mathutils.Vector arithmetic on <<x, y, z>>
VAdd(a, b) == << a[1] + b[1], a[2] + b[2], a[3] + b[3] >>
VSub(a, b) == << a[1] - b[1], a[2] - b[2], a[3] - b[3] >>
\* Vector.length; a long vector is measured in coarser units to stay within 32 bits
LengthIn(v, k) ==
    k * Isqrt[(v[1] \div k) * (v[1] \div k) + (v[2] \div k) * (v[2] \div k)
                  + (v[3] \div k) * (v[3] \div k)]
Length[v \in Int \X Int \X Int] ==
    LengthIn(v, Max(Abs(v[1]), Max(Abs(v[2]), Abs(v[3]))) \div 20000 + 1)
\* Vector.lerp with the factor in 1/1000
Lerp(a, b, f) == << a[1] + ((b[1] - a[1]) * f) \div 1000,
                    a[2] + ((b[2] - a[2]) * f) \div 1000,
                    a[3] + ((b[3] - a[3]) * f) \div 1000 >>
\* the unit vector of azimuth theta and polar angle phi, in 1/1000
UnitOf(sin_theta, cos_theta, sin_phi, cos_phi) ==
    << (sin_phi * cos_theta) \div 1000, (sin_phi * sin_theta) \div 1000, cos_phi >>
Unit(theta, phi) == UnitOf(Sin[theta], Cos[theta], Sin[phi], Cos[phi])
\* Vector.to_track_quat('-Z', 'Y'): the rotation looking along v
Track(v, length) ==
    IF length = 0 THEN << 0, 0 >>
    ELSE << Atan2[v[2], v[1]], Acos[Max(-1000, Min(1000, (v[3] * 1000) \div length))] >>
to_track_quat[v \in Int \X Int \X Int] == Track(v, Length[v])
\* Quaternion.slerp with the factor in 1/1000
Slerp(q0, q1, f) == << q0[1] + ((q1[1] - q0[1]) * f) \div 1000,
                       q0[2] + ((q1[2] - q0[2]) * f) \div 1000 >>
\* the camera's position for a view looking along rot at location from distance
Along(location, l, dist) ==
    << location[1] + (dist * l[1]) \div 1000,
       location[2] + (dist * l[2]) \div 1000,
       location[3] + (dist * l[3]) \div 1000 >>
Eye(location, rot, dist) == Along(location, Unit(rot[1], rot[2]), -dist)
\* the camera's right and up axes in world space (matrix columns 1 and 2), in 1/1000
RightAxis(rot) == << Sin[rot[1]], -Cos[rot[1]], 0 >>
UpAxisOf(sin_theta, cos_theta, sin_phi, cos_phi) ==
    << -(cos_phi * cos_theta) \div 1000, -(cos_phi * sin_theta) \div 1000, sin_phi >>
UpAxis(rot) == UpAxisOf(Sin[rot[1]], Cos[rot[1]], Sin[rot[2]], Cos[rot[2]])

\* ------------------------------------------------------------ preferences

Modes == {"FOCUS", "ORBIT", "PAN"}

\* SLCameraPreferences with every property at its default
DefaultPrefs == [ pan_sensitivity |-> 1, zoom_sensitivity |-> 40, orbit_sensitivity |-> 4,
                  invert_horizontal |-> FALSE, invert_vertical |-> FALSE,
                  min_zoom_distance |-> 1, max_zoom_distance |-> 20000,
                  orbit_elevation_limit |-> 85 ]
\* SLCameraPreferences set by the user, every property within its min..max
TunedPrefs == [ pan_sensitivity |-> 2, zoom_sensitivity |-> 100, orbit_sensitivity |-> 50,
                invert_horizontal |-> TRUE, invert_vertical |-> TRUE,
                min_zoom_distance |-> 500, max_zoom_distance |-> 1000,
                orbit_elevation_limit |-> 45 ]
\* self.prefs before invoke has read the preferences
NoPrefs == [ pan_sensitivity |-> 0, zoom_sensitivity |-> 0, orbit_sensitivity |-> 0,
             invert_horizontal |-> FALSE, invert_vertical |-> FALSE,
             min_zoom_distance |-> 0, max_zoom_distance |-> 0,
             orbit_elevation_limit |-> 0 ]

\* the modifier keys each keymap item asks for
keymap_items(camera_mode) ==
    IF camera_mode = "PAN" THEN {"LEFT_ALT", "LEFT_CTRL", "LEFT_SHIFT"}
    ELSE IF camera_mode = "ORBIT" THEN {"LEFT_ALT", "LEFT_CTRL"}
    ELSE {"LEFT_ALT"}

\* ------------------------------------------------------- camera and view

_apply_camera_transform(c, position, rotation) ==
    IF ~c.has_camera THEN c
    ELSE [c EXCEPT !.camera_location = position, !.camera_rotation = rotation]

_get_camera_matrix(s, c) ==
    IF s.camera_lock_mode /\ c.has_camera
    THEN [ translation |-> c.camera_location, rotation |-> c.camera_rotation ]
    ELSE [ translation |-> Eye(c.view_location, c.view_rotation, c.view_distance),
           rotation |-> c.view_rotation ]

\* defaults is None or <<default_theta, default_phi>>
_direction_to_spherical(s, direction, defaults) ==
    IF Length[direction] > 0
    THEN [s EXCEPT !.theta = Atan2[direction[2], direction[1]],
                   !.phi = Acos[Max(-1000, Min(1000,
                                (direction[3] * 1000) \div Length[direction]))]]
    ELSE IF defaults # None
    THEN [s EXCEPT !.theta = defaults[1], !.phi = defaults[2]]
    ELSE s

\* _update_camera_position once camera_pos is computed
look_from(s, c, camera_pos) ==
    IF s.camera_lock_mode
    THEN _apply_camera_transform(c, camera_pos,
                                 to_track_quat[VSub(s.target_point, camera_pos)])
    ELSE [c EXCEPT !.view_location = s.target_point,
                   !.view_rotation = to_track_quat[VSub(s.target_point, camera_pos)],
                   !.view_distance = s.distance]

\* the host view after the spherical state is written to it
_update_camera_position(s, c) ==
    IF s.target_point = None THEN c
    ELSE look_from(s, c, Along(s.target_point, Unit(s.theta, s.phi), s.distance))

\* ------------------------------------------------------------ transition

transition_duration == 150

\* transition_from with the camera position at the start left unrecorded
transition_from_without_cam_pos(s, c, target_point, view_mat) ==
    [s EXCEPT !.start_target = IF s.target_point = None THEN c.view_location
                               ELSE s.target_point,
              !.start_rotation = IF s.camera_lock_mode /\ c.has_camera
                                 THEN view_mat.rotation
                                 ELSE c.view_rotation,
              !.end_rotation = to_track_quat[VSub(target_point, view_mat.translation)],
              !.end_target = target_point,
              !.is_transitioning = TRUE,
              !.transition_start_time = c.clock,
              !.target_point = target_point]

\* _start_transition once the view matrix is read
transition_from(s, c, target_point, view_mat) ==
    [s EXCEPT !.start_target = IF s.target_point = None THEN c.view_location
                               ELSE s.target_point,
              !.initial_cam_pos = view_mat.translation,
              !.start_rotation = IF s.camera_lock_mode /\ c.has_camera
                                 THEN view_mat.rotation
                                 ELSE c.view_rotation,
              !.end_rotation = to_track_quat[VSub(target_point, view_mat.translation)],
              !.end_target = target_point,
              !.is_transitioning = TRUE,
              !.transition_start_time = c.clock,
              !.target_point = target_point]

\* _start_transition that lets a transition in flight run on
_start_transition_unless_in_flight(s, c, target_point) ==
    IF s.is_transitioning THEN s
    ELSE transition_from(s, c, target_point, _get_camera_matrix(s, c))

_start_transition(s, c, target_point) ==
    transition_from(s, c, target_point, _get_camera_matrix(s, c))

\* progress of the transition at clock reading now, in 1/1000
transition_progress(s, now) ==
    Min(1000, ((now - s.transition_start_time) * 1000) \div s.transition_duration)

\* the smooth easing of _update_transition
ease[progress \in Int] ==
    IF progress < 500
    THEN (2 * progress * progress) \div 1000
    ELSE 1000 - ((2000 - 2 * progress) * (2000 - 2 * progress)) \div 2000

\* the camera or the view at the interpolated rotation and target
interpolated(s, c, current_rotation, current_target) ==
    IF s.camera_lock_mode
    THEN _apply_camera_transform(c, s.initial_cam_pos, current_rotation)
    ELSE [c EXCEPT !.view_rotation = current_rotation,
                   !.view_location = current_target,
                   !.view_distance = Length[VSub(s.initial_cam_pos, current_target)]]

\* completed with the distance left as it was before the transition
completed_keeping_distance(s, direction) ==
    _direction_to_spherical([s EXCEPT !.is_transitioning = FALSE,
                                      !.target_point = s.end_target],
                            direction, None)

\* the end of a transition: if progress >= 1.0
completed(s, direction) ==
    _direction_to_spherical([s EXCEPT !.is_transitioning = FALSE,
                                      !.target_point = s.end_target,
                                      !.distance = Length[direction]],
                            direction, None)

\* _update_transition once progress and its easing are computed
transition_at(s, c, progress, eased) ==
    [ self |-> IF progress >= 1000
               THEN completed(s, VSub(s.initial_cam_pos, s.end_target))
               ELSE s,
      ctx |-> interpolated(s, c, Slerp(s.start_rotation, s.end_rotation, eased),
                           Lerp(s.start_target, s.end_target, eased)) ]

_update_transition(s, c) ==
    IF ~s.is_transitioning THEN [ self |-> s, ctx |-> c ]
    ELSE transition_at(s, c, transition_progress(s, c.clock),
                       ease[transition_progress(s, c.clock)])

\* ---------------------------------------------------------------- clicks

\* scene.ray_cast from the wrapped region coordinate; the scene's answer comes with
\* the event
_perform_raycast(c, ev, coord_override) ==
    LET coord == IF coord_override # None
                 THEN << coord_override[1] % c.region_width,
                         coord_override[2] % c.region_height >>
                 ELSE << ev.mouse_region_x % c.region_width,
                         ev.mouse_region_y % c.region_height >>
    IN  [ result |-> ev.ray_result, location |-> ev.ray_location, coord |-> coord ]

\* target_clicked moving the camera to the new target at once
target_clicked_snapping(s, c, ray) ==
    IF ray.result
    THEN [ self |-> _start_transition(s, c, ray.location),
           ctx |-> [_update_camera_position(_start_transition(s, c, ray.location), c)
                        EXCEPT !.redraw_tagged = TRUE] ]
    ELSE [ self |-> [s EXCEPT !.target_point = None], ctx |-> c ]

\* _handle_target_click once the ray is cast
target_clicked(s, c, ray) ==
    IF ray.result
    THEN [ self |-> _start_transition(s, c, ray.location),
           ctx |-> [c EXCEPT !.redraw_tagged = TRUE] ]
    ELSE [ self |-> [s EXCEPT !.target_point = None], ctx |-> c ]

_handle_target_click(s, c, ev, coord_override) ==
    target_clicked(s, c, _perform_raycast(c, ev, coord_override))

\* pan_clicked clearing the target on a miss, as target_clicked does
pan_clicked_clearing_target(s, c, ray) ==
    IF ray.result
    THEN [ self |-> _start_transition(s, c, ray.location),
           ctx |-> [c EXCEPT !.redraw_tagged = TRUE] ]
    ELSE [ self |-> [s EXCEPT !.target_point = None], ctx |-> c ]

\* _handle_pan_click once the ray is cast
pan_clicked(s, c, ray) ==
    IF ray.result
    THEN [ self |-> _start_transition(s, c, ray.location),
           ctx |-> [c EXCEPT !.redraw_tagged = TRUE] ]
    ELSE [ self |-> s, ctx |-> c ]

_handle_pan_click(s, c, ev, coord_override) ==
    pan_clicked(s, c, _perform_raycast(c, ev, coord_override))

\* _handle_click handing the click to _handle_target_click in every mode
_handle_click_as_target_click(s, c, ev, coord_override) ==
    IF s.mode \in Modes THEN _handle_target_click(s, c, ev, coord_override)
    ELSE [ self |-> s, ctx |-> c ]

_handle_click(s, c, ev, coord_override) ==
    IF s.mode \in {"FOCUS", "ORBIT"} THEN _handle_target_click(s, c, ev, coord_override)
    ELSE IF s.mode = "PAN" THEN _handle_pan_click(s, c, ev, coord_override)
    ELSE [ self |-> s, ctx |-> c ]

\* ----------------------------------------------------------------- drags

\* a drag's new spherical state, written to the host view
moved(s, c) == [ self |-> s, ctx |-> _update_camera_position(s, c) ]

\* 0.01 + (base_factor - 0.01) * (distance / (distance + 0.5)), with
\* distance / (distance + 0.5) taken as 1 - 0.5 / (distance + 0.5)
fine_control_factor(distance, base_factor) ==
    1 + (base_factor - 1) - ((base_factor - 1) * 50) \div (distance + 50)

zoom_change(s, zoom_delta, distance_factor) ==
    ((((0 - zoom_delta) * s.prefs.zoom_sensitivity) \div 10) * distance_factor) \div 100

_handle_focus_drag(s, c, dx, dy) ==
    IF s.target_point = None THEN [ self |-> s, ctx |-> c ]
    ELSE moved([s EXCEPT
                  !.theta = s.theta + (IF s.prefs.invert_horizontal THEN dx ELSE -dx)
                                          * s.prefs.orbit_sensitivity,
                  !.distance =
                      IF dy # 0
                      THEN Max(s.prefs.min_zoom_distance,
                               Min(s.prefs.max_zoom_distance,
                                   s.distance + zoom_change(s, dy,
                                       Max(1, fine_control_factor(s.distance,
                                                                  s.distance \div 10)))))
                      ELSE s.distance],
               c)

\* clamp_phi with only the lower limit applied
clamp_phi_lower_only(new_phi, min_phi_from_pole) ==
    Max(min_phi_from_pole, new_phi)

\* the polar angle nearest to new_phi that the elevation limit allows
clamp_phi(new_phi, min_phi_from_pole) ==
    Max(min_phi_from_pole, Min(PI - min_phi_from_pole, new_phi))

_handle_orbit_drag(s, c, dx, dy) ==
    IF s.target_point = None THEN [ self |-> s, ctx |-> c ]
    ELSE moved([s EXCEPT
                  !.theta = s.theta + (IF s.prefs.invert_horizontal THEN dx ELSE -dx)
                                          * s.prefs.orbit_sensitivity,
                  !.phi = clamp_phi(s.phi - (IF s.prefs.invert_vertical THEN dy ELSE -dy)
                                                * s.prefs.orbit_sensitivity,
                                    Radians(90 - s.prefs.orbit_elevation_limit))],
               c)

\* (right_vec * pan_dx + up_vec * pan_dy) * pan_sensitivity * distance_factor
pan_vector(s, right_vec, up_vec, pan_dx, pan_dy, distance_factor) ==
    [ k \in 1..3 |->
        ((((right_vec[k] * pan_dx + up_vec[k] * pan_dy) * s.prefs.pan_sensitivity)
            \div 1000) * distance_factor) \div 1000 ]

\* _handle_pan_drag once pan_vec is computed;
\* target_point += pan_vec raises TypeError when target_point is None
panned(s, c, pan_vec) ==
    IF s.target_point = None
    THEN [ self |-> s, ctx |-> [c EXCEPT !.exception = "TypeError"] ]
    ELSE [ self |-> [s EXCEPT !.target_point = VAdd(s.target_point, pan_vec)],
           ctx |-> IF s.camera_lock_mode
                   THEN IF c.has_camera
                        THEN [c EXCEPT !.camera_location = VAdd(c.camera_location, pan_vec)]
                        ELSE c
                   ELSE [c EXCEPT !.view_location = VAdd(c.view_location, pan_vec)] ]

_handle_pan_drag(s, c, dx, dy) ==
    panned(s, c,
           pan_vector(s, RightAxis(_get_camera_matrix(s, c).rotation),
                      UpAxis(_get_camera_matrix(s, c).rotation),
                      IF s.prefs.invert_horizontal THEN dx ELSE -dx,
                      IF s.prefs.invert_vertical THEN dy ELSE -dy,
                      Max(1, s.distance)))

\* ------------------------------------------------------------------ modes

_update_status_text(s, c) ==
    IF s.mode \in Modes THEN [c EXCEPT !.status_text = s.mode] ELSE c

\* _set_mode giving a target to ORBIT mode only
_set_mode_target_for_orbit_only(s, c, new_mode) ==
    IF new_mode = s.mode THEN [ self |-> s, ctx |-> c ]
    ELSE [ self |-> [s EXCEPT !.mode = new_mode,
                              !.is_transitioning = FALSE,
                              !.target_point =
                                  IF new_mode = "ORBIT" /\ s.target_point = None
                                  THEN c.view_location
                                  ELSE s.target_point],
           ctx |-> _update_status_text([s EXCEPT !.mode = new_mode], c) ]

\* _set_mode with the transition in flight left running
_set_mode_keeping_transition(s, c, new_mode) ==
    IF new_mode = s.mode THEN [ self |-> s, ctx |-> c ]
    ELSE [ self |-> [s EXCEPT !.mode = new_mode,
                              !.target_point =
                                  IF new_mode \in {"ORBIT", "PAN"} /\ s.target_point = None
                                  THEN c.view_location
                                  ELSE s.target_point],
           ctx |-> _update_status_text([s EXCEPT !.mode = new_mode], c) ]

_set_mode(s, c, new_mode) ==
    IF new_mode = s.mode THEN [ self |-> s, ctx |-> c ]
    ELSE [ self |-> [s EXCEPT !.mode = new_mode,
                              !.is_transitioning = FALSE,
                              !.target_point =
                                  IF new_mode \in {"ORBIT", "PAN"} /\ s.target_point = None
                                  THEN c.view_location
                                  ELSE s.target_point],
           ctx |-> _update_status_text([s EXCEPT !.mode = new_mode], c) ]

\* the drag handler of the mode in force
dragged(s, c, dx, dy) ==
    IF s.mode = "FOCUS" THEN _handle_focus_drag(s, c, dx, dy)
    ELSE IF s.mode = "ORBIT" THEN _handle_orbit_drag(s, c, dx, dy)
    ELSE IF s.mode = "PAN" THEN _handle_pan_drag(s, c, dx, dy)
    ELSE [ self |-> s, ctx |-> c ]

\* tracked recording the pointer position only when a drag handler ran
tracked_when_handled(r, ev, handled) ==
    IF r.ctx.exception # "" \/ ~handled THEN r
    ELSE [ self |-> [r.self EXCEPT !.last_x = ev.mouse_region_x,
                                   !.last_y = ev.mouse_region_y],
           ctx |-> [r.ctx EXCEPT !.redraw_tagged = TRUE] ]

\* a handled drag tags the area for redraw; the move becomes the last pointer
\* position unless the handler raised
tracked(r, ev, handled) ==
    IF r.ctx.exception # "" THEN r
    ELSE [ self |-> [r.self EXCEPT !.last_x = ev.mouse_region_x,
                                   !.last_y = ev.mouse_region_y],
           ctx |-> IF handled THEN [r.ctx EXCEPT !.redraw_tagged = TRUE] ELSE r.ctx ]

\* _handle_mouse_move dragging whether or not a transition is in flight
_handle_mouse_move_in_flight(s, c, ev) ==
    IF /\ s.mouse_down
       /\ (ev.mouse_region_x - s.last_x # 0 \/ ev.mouse_region_y - s.last_y # 0)
    THEN tracked(dragged(s, c, ev.mouse_region_x - s.last_x, ev.mouse_region_y - s.last_y),
                 ev, TRUE)
    ELSE tracked([ self |-> s, ctx |-> c ], ev, FALSE)

_handle_mouse_move(s, c, ev) ==
    IF /\ s.mouse_down
       /\ (ev.mouse_region_x - s.last_x # 0 \/ ev.mouse_region_y - s.last_y # 0)
       /\ ~s.is_transitioning
    THEN tracked(dragged(s, c, ev.mouse_region_x - s.last_x, ev.mouse_region_y - s.last_y),
                 ev, TRUE)
    ELSE tracked([ self |-> s, ctx |-> c ], ev, FALSE)

\* ------------------------------------------------------------- lifecycle

\* finish that removes the timer and keeps its handle
finish_keeping_handle(s, c) ==
    IF s._timer # 0
    THEN [ self |-> s,
           ctx |-> [c EXCEPT !.status_text = "None",
                             !.timers = c.timers \ {s._timer},
                             !.timer_removals = c.timer_removals + 1],
           result |-> "CANCELLED" ]
    ELSE [ self |-> s, ctx |-> [c EXCEPT !.status_text = "None"], result |-> "CANCELLED" ]

finish(s, c) ==
    LET c1 == [c EXCEPT !.status_text = "None"]
    IN  IF s._timer # 0
        THEN [ self |-> [s EXCEPT !._timer = 0],
               ctx |-> [c1 EXCEPT !.timers = c1.timers \ {s._timer},
                                  !.timer_removals = c1.timer_removals + 1],
               result |-> "CANCELLED" ]
        ELSE [ self |-> s, ctx |-> c1, result |-> "CANCELLED" ]

\* invoke up to the timer: the pointer, the lock mode and the spherical state read
\* from the view
initialized(s, c, ev, is_drag) ==
    _direction_to_spherical(
        [s EXCEPT !.mode = s.camera_mode,
                  !.mouse_down = is_drag,
                  !.last_x = IF is_drag THEN ev.mouse_prev_press_x - c.region_x
                             ELSE ev.mouse_region_x,
                  !.last_y = IF is_drag THEN ev.mouse_prev_press_y - c.region_y
                             ELSE ev.mouse_region_y,
                  !.camera_lock_mode =
                      (c.view_perspective = "CAMERA" /\ c.lock_camera /\ c.has_camera),
                  !.target_point = c.view_location,
                  !.distance = c.view_distance,
                  !.start_target = None, !.end_target = None, !.initial_cam_pos = None,
                  !.prefs = c.preferences,
                  !._timer = c.timers_added + 1],
        VSub(_get_camera_matrix(
                 [s EXCEPT !.camera_lock_mode =
                      (c.view_perspective = "CAMERA" /\ c.lock_camera /\ c.has_camera)],
                 c).translation,
             c.view_location),
        << PI \div 4, PI \div 4 >>)

\* window_manager.event_timer_add
event_timer_add(c) ==
    [c EXCEPT !.timers = c.timers \cup {c.timers_added + 1},
              !.timers_added = c.timers_added + 1]

\* the initial click handled by mode
first_click(s, c, ev, is_drag) ==
    _handle_click(s, c, ev, IF is_drag THEN << s.last_x, s.last_y >> ELSE None)

\* the end of invoke: the status text and the modal handler
running(r) ==
    [ self |-> r.self,
      ctx |-> [_update_status_text(r.self, r.ctx)
                   EXCEPT !.modal_handlers = r.ctx.modal_handlers + 1],
      result |-> "RUNNING_MODAL" ]

\* context.area.type raises AttributeError when the context has no area
invoke(s, c, ev) ==
    IF c.area_type = "NONE"
    THEN [ self |-> s, ctx |-> [c EXCEPT !.exception = "AttributeError"],
           result |-> "CANCELLED" ]
    ELSE IF c.area_type # "VIEW_3D" THEN [ self |-> s, ctx |-> c, result |-> "CANCELLED" ]
    ELSE running(first_click(initialized(s, c, ev, ev.value = "CLICK_DRAG"),
                             event_timer_add(c), ev, ev.value = "CLICK_DRAG"))

\* desired_mode with the two-key test ahead of the three-key test
desired_mode_two_keys_first(ev) ==
    IF ev.alt /\ ev.ctrl THEN "ORBIT"
    ELSE IF ev.alt /\ ev.ctrl /\ ev.shift THEN "PAN"
    ELSE IF ev.alt THEN "FOCUS"
    ELSE "None"

\* the mode the modifier keys of ev ask for
desired_mode(ev) ==
    IF ev.alt /\ ev.ctrl /\ ev.shift THEN "PAN"
    ELSE IF ev.alt /\ ev.ctrl THEN "ORBIT"
    ELSE IF ev.alt THEN "FOCUS"
    ELSE "None"

\* modal's event handling, after the mode is settled
handled(s, c, ev) ==
    IF ev.type = "LEFTMOUSE" /\ ev.value = "PRESS"
    THEN _handle_click([s EXCEPT !.mouse_down = TRUE,
                                 !.last_x = ev.mouse_region_x,
                                 !.last_y = ev.mouse_region_y],
                       c, ev, None)
    ELSE IF ev.type = "LEFTMOUSE" /\ ev.value = "RELEASE"
    THEN [ self |-> [s EXCEPT !.mouse_down = FALSE], ctx |-> c ]
    ELSE IF ev.type = "MOUSEMOVE"
    THEN _handle_mouse_move(s, c, ev)
    ELSE [ self |-> s, ctx |-> c ]

\* modal's result while the operator keeps running
keeps_running(r) == [ self |-> r.self, ctx |-> r.ctx, result |-> "RUNNING_MODAL" ]

\* the mode settled, then the event handled
in_mode(r, ev) == keeps_running(handled(r.self, r.ctx, ev))

\* viewport_lost testing only that the context has an area
viewport_lost_without_area(c) == c.area_type = "NONE"

\* context.area is None or context.area.type != 'VIEW_3D'
viewport_lost(c) == c.area_type # "VIEW_3D"

\* exit_requested by the right alt key only
exit_requested_right_alt(ev) == ev.type = "RIGHT_ALT" /\ ev.value = "RELEASE"

\* the exit condition of modal: an alt key released
exit_requested(ev) == ev.type \in {"LEFT_ALT", "RIGHT_ALT"} /\ ev.value = "RELEASE"

modal(s, c, ev) ==
    IF viewport_lost(c) THEN finish(s, c)
    ELSE IF ev.type = "TIMER"
    THEN IF s.is_transitioning
         THEN [ self |-> _update_transition(s, c).self,
                ctx |-> [_update_transition(s, c).ctx EXCEPT !.redraw_tagged = TRUE],
                result |-> "RUNNING_MODAL" ]
         ELSE [ self |-> s, ctx |-> c, result |-> "RUNNING_MODAL" ]
    ELSE IF exit_requested(ev)
    THEN finish(s, c)
    ELSE IF desired_mode(ev) # "None" /\ desired_mode(ev) # s.mode
    THEN in_mode(_set_mode(s, c, desired_mode(ev)), ev)
    ELSE in_mode([ self |-> s, ctx |-> c ], ev)

\* ------------------------------------------------------------------- host

\* the views and preferences a session starts from
Setups == {
    \* top view, no scene camera, default preferences
    [ view_location |-> << 0, 0, 0 >>, view_rotation |-> << 0, PI >>, view_distance |-> 300,
      view_perspective |-> "ORTHO", lock_camera |-> FALSE, has_camera |-> FALSE,
      camera_location |-> << 0, 0, 0 >>, camera_rotation |-> << 0, 0 >>,
      preferences |-> DefaultPrefs ],
    \* camera view with the camera locked to the view, the camera looking at the
    \* view's pivot from 37 degrees above the horizon, tuned preferences
    [ view_location |-> << 0, 0, 0 >>, view_rotation |-> << PI, 2095 >>,
      view_distance |-> 600,
      view_perspective |-> "CAMERA", lock_camera |-> TRUE, has_camera |-> TRUE,
      camera_location |-> << 0, -400, 300 >>,
      camera_rotation |-> to_track_quat[<< 0, 400, -300 >>],
      preferences |-> TunedPrefs ] }

KeyTypes == {"LEFT_ALT", "LEFT_CTRL", "LEFT_SHIFT"}

\* the pointer when the button goes down, and where a click-drag has moved it
PressPosition == << 0, 0 >>
DragPosition == << 10, 0 >>

Host(setup, area_type) ==
    [ area_type |-> area_type,
      region_x |-> 0, region_y |-> 0, region_width |-> 800, region_height |-> 600,
      view_location |-> setup.view_location, view_rotation |-> setup.view_rotation,
      view_distance |-> setup.view_distance, view_perspective |-> setup.view_perspective,
      lock_camera |-> setup.lock_camera, has_camera |-> setup.has_camera,
      camera_location |-> setup.camera_location,
      camera_rotation |-> setup.camera_rotation,
      preferences |-> setup.preferences,
      status_text |-> "None",
      timers |-> {}, timers_added |-> 0, timer_removals |-> 0,
      modal_handlers |-> 0, redraw_tagged |-> FALSE, exception |-> "",
      clock |-> 0,
      keys |-> {}, mouse |-> PressPosition, button_down |-> FALSE, events |-> 0 ]

\* the attributes of a fresh SL_CAMERA_OT_modal; mode, mouse_down, last_x, last_y,
\* camera_lock_mode and prefs are first assigned by invoke
Operator ==
    [ camera_mode |-> "FOCUS",
      target_point |-> None, phi |-> PI \div 4, theta |-> PI \div 4, distance |-> 1400,
      is_transitioning |-> FALSE, start_rotation |-> None, end_rotation |-> None,
      transition_start_time |-> 0, transition_duration |-> transition_duration,
      start_target |-> None, end_target |-> None, initial_cam_pos |-> None,
      _timer |-> 0,
      mode |-> "None", mouse_down |-> FALSE, last_x |-> 0, last_y |-> 0,
      camera_lock_mode |-> FALSE, prefs |-> NoPrefs ]

RayOutcomes ==
    { [ result |-> FALSE, location |-> << 0, 0, 0 >> ] }
        \cup { [ result |-> TRUE, location |-> p ] : p \in HitPoints }
NoRay == [ result |-> FALSE, location |-> << 0, 0, 0 >> ]

\* the event the host builds from its input state c
Event(type, value, c, ray) ==
    [ type |-> type, value |-> value,
      alt |-> c.keys \cap {"LEFT_ALT", "RIGHT_ALT"} # {},
      ctrl |-> "LEFT_CTRL" \in c.keys,
      shift |-> "LEFT_SHIFT" \in c.keys,
      mouse_region_x |-> c.mouse[1], mouse_region_y |-> c.mouse[2],
      mouse_prev_press_x |-> PressPosition[1] + c.region_x,
      mouse_prev_press_y |-> PressPosition[2] + c.region_y,
      ray_result |-> ray.result, ray_location |-> ray.location ]

\* what a step records of the state it starts from
Before ==
    [ mode |-> self.mode, is_transitioning |-> self.is_transitioning,
      mouse_down |-> self.mouse_down, target_point |-> self.target_point ]

Init ==
    /\ self = Operator
    /\ \E setup \in Setups :
         \/ ctx = Host(setup, "VIEW_3D")
         \/ setup.view_perspective = "ORTHO" /\ ctx = Host(setup, "CONSOLE")
         \/ setup.view_perspective = "ORTHO" /\ ctx = Host(setup, "NONE")
    /\ pc = "idle"
    /\ event = Event("NONE", "NOTHING", ctx, NoRay)
    /\ was = Before

\* the keymap starts the operator on a click or a click-drag with the mode's chord held
Invoke ==
    /\ pc = "idle"
    /\ \E camera_mode \in Modes, value \in {"CLICK", "CLICK_DRAG"}, ray \in RayOutcomes :
         \E c0 \in { [ctx EXCEPT !.keys = keymap_items(camera_mode),
                                  !.button_down = (value = "CLICK_DRAG"),
                                  !.mouse = IF value = "CLICK_DRAG" THEN DragPosition
                                            ELSE PressPosition] } :
           \E r \in { invoke([self EXCEPT !.camera_mode = camera_mode], c0,
                              Event("LEFTMOUSE", value, c0, ray)) } :
             /\ self' = r.self
             /\ ctx' = r.ctx
             /\ pc' = IF r.ctx.exception # "" THEN "crashed"
                      ELSE IF r.result = "RUNNING_MODAL" THEN "modal"
                      ELSE "finished"
             /\ event' = Event("LEFTMOUSE", value, c0, ray)
    /\ was' = Before

\* the window manager builds the event from its input state c0 and hands it to the
\* running operator's modal()
Deliver(c0, type, value, ray) ==
    \E ev \in { Event(type, value, c0, ray) } :
        /\ event' = ev
        /\ was' = Before
        /\ \E r \in { modal(self, [c0 EXCEPT !.redraw_tagged = FALSE], ev) } :
             /\ self' = r.self
             /\ ctx' = IF r.result = "CANCELLED" \/ r.ctx.exception # ""
                       THEN [r.ctx EXCEPT !.modal_handlers = 0]
                       ELSE r.ctx
             /\ pc' = IF r.ctx.exception # "" THEN "crashed"
                      ELSE IF r.result = "CANCELLED" THEN "finished"
                      ELSE "modal"

\* the timer fires. The operator reads the clock only to start a transition and to
\* advance one, so time is taken to pass only between the timer events of a
\* transition in flight
TimerTick ==
    /\ pc = "modal"
    /\ \/ /\ self.is_transitioning
          /\ \E dt \in TickSteps :
               /\ ctx.clock + dt <= MaxTime
               /\ \E c0 \in { [ctx EXCEPT !.clock = ctx.clock + dt] } :
                    Deliver(c0, "TIMER", "NOTHING", NoRay)
       \/ /\ ~self.is_transitioning
          /\ Deliver(ctx, "TIMER", "NOTHING", NoRay)

KeyEvent ==
    /\ pc = "modal"
    /\ ctx.events < MaxEvents
    /\ \E key \in KeyTypes :
         \E c0 \in { [ctx EXCEPT !.keys = IF key \in ctx.keys THEN ctx.keys \ {key}
                                           ELSE ctx.keys \cup {key},
                                  !.events = ctx.events + 1] } :
             Deliver(c0, key, IF key \in ctx.keys THEN "RELEASE" ELSE "PRESS", NoRay)

MousePress ==
    /\ pc = "modal"
    /\ ctx.events < MaxEvents
    /\ ~ctx.button_down
    /\ \E ray \in RayOutcomes :
         \E c0 \in { [ctx EXCEPT !.button_down = TRUE, !.events = ctx.events + 1] } :
             Deliver(c0, "LEFTMOUSE", "PRESS", ray)

MouseRelease ==
    /\ pc = "modal"
    /\ ctx.events < MaxEvents
    /\ ctx.button_down
    /\ \E c0 \in { [ctx EXCEPT !.button_down = FALSE, !.events = ctx.events + 1] } :
         Deliver(c0, "LEFTMOUSE", "RELEASE", NoRay)

MouseMove ==
    /\ pc = "modal"
    /\ ctx.events < MaxEvents
    /\ \E p \in MousePositions :
         \E c0 \in { [ctx EXCEPT !.mouse = p, !.events = ctx.events + 1] } :
             Deliver(c0, "MOUSEMOVE", "NOTHING", NoRay)

\* the editor area is closed or switched to another editor
\* while an event is still to come
AreaLost ==
    /\ pc = "modal"
    /\ ctx.events < MaxEvents
    /\ ctx.area_type = "VIEW_3D"
    /\ \E area_type \in {"NONE", "CONSOLE"} :
         ctx' = [ctx EXCEPT !.area_type = area_type]
    /\ event' = Event("AREA", "NOTHING", ctx, NoRay)
    /\ was' = Before
    /\ UNCHANGED <<self, pc>>

\* the window regains focus with no modifier key held
KeysDropped ==
    /\ pc = "modal"
    /\ ctx.keys # {}
    /\ ctx' = [ctx EXCEPT !.keys = {}]
    /\ event' = Event("FOCUS", "NOTHING", ctx, NoRay)
    /\ was' = Before
    /\ UNCHANGED <<self, pc>>

\* time.time() reads the system clock, which can be set back
ClockSetBack ==
    /\ pc = "modal"
    /\ self.is_transitioning
    /\ ctx.events < MaxEvents
    /\ \E dt \in SetBackSteps :
         ctx' = [ctx EXCEPT !.clock = ctx.clock - dt, !.events = ctx.events + 1]
    /\ event' = Event("CLOCK", "NOTHING", ctx, NoRay)
    /\ was' = Before
    /\ UNCHANGED <<self, pc>>

\* the host ends the running operator itself (the window closes, a file loads): it
\* would call the operator's cancel(), and the class defines none
HostCancel ==
    /\ pc = "modal"
    /\ ctx.events < MaxEvents
    /\ ctx' = [ctx EXCEPT !.modal_handlers = 0, !.events = ctx.events + 1]
    /\ pc' = "cancelled"
    /\ event' = Event("CANCEL", "NOTHING", ctx, NoRay)
    /\ was' = Before
    /\ UNCHANGED self

Next ==
    \/ Invoke
    \/ TimerTick
    \/ KeyEvent
    \/ MousePress
    \/ MouseRelease
    \/ MouseMove
    \/ AreaLost
    \/ KeysDropped
    \/ ClockSetBack
    \/ HostCancel

Spec == Init /\ [][Next]_vars

\* the timer fires every 16 ms for as long as it is registered
LiveSpec == Spec /\ WF_vars(TimerTick)

\* ------------------------------------------------------------------ claims

\* the session is over: the operator no longer receives events
SessionOver == pc \in {"finished", "cancelled", "crashed"}

\* the pose the host shows: the view and the scene camera
Pose(c) == << c.view_location, c.view_rotation, c.view_distance,
              c.camera_location, c.camera_rotation >>

\* the last step handed a pointer or key event to modal() and the session goes on
InputEvents == KeyTypes \cup {"LEFTMOUSE", "MOUSEMOVE"}

\* C1: once the session has ended, by alt release, by loss of the viewport or by the
\* host cancelling the operator, no timer the session armed is still registered,
\* and every timer it armed was removed exactly once
C1_TimerReleasedOnEveryExit ==
    SessionOver => ctx.timers = {} /\ ctx.timer_removals = ctx.timers_added

\* C2: while the session runs, a target point that is undefined becomes defined again
\* only by a click that hits geometry or by a mode change into ORBIT or PAN
C2_TargetStaysUndefined ==
    [][ (pc = "modal" /\ pc' = "modal"
            /\ self.target_point = None /\ self'.target_point # None)
        => \/ event'.type = "LEFTMOUSE" /\ event'.value = "PRESS" /\ event'.ray_result
           \/ self'.mode # self.mode /\ self'.mode \in {"ORBIT", "PAN"} ]_vars

\* the step is a mouse move that runs the FOCUS drag handler
FocusDragStep ==
    /\ pc = "modal" /\ pc' = "modal"
    /\ event'.type = "MOUSEMOVE"
    /\ self.mode = "FOCUS" /\ self'.mode = "FOCUS"
    /\ self.mouse_down /\ ~self.is_transitioning /\ self.target_point # None
    /\ (event'.mouse_region_x # self.last_x \/ event'.mouse_region_y # self.last_y)

\* C3: after a FOCUS drag with the target defined and no transition in flight, the
\* distance lies within [min_zoom_distance, max_zoom_distance], whatever dx, dy and
\* the distance before the drag
C3_FocusDragKeepsDistanceInRange ==
    [][ FocusDragStep
        => /\ self'.distance >= self'.prefs.min_zoom_distance
           /\ self'.distance <= self'.prefs.max_zoom_distance ]_vars

\* C4: in every state of a running session the distance lies within
\* [min_zoom_distance, max_zoom_distance] and phi within the range the elevation
\* limit allows
C4_SphericalStateInRange ==
    pc = "modal"
    => /\ self.distance >= self.prefs.min_zoom_distance
       /\ self.distance <= self.prefs.max_zoom_distance
       /\ self.phi >= Radians(90 - self.prefs.orbit_elevation_limit)
       /\ self.phi <= PI - Radians(90 - self.prefs.orbit_elevation_limit)

\* the transition data of the operator
TransitionData ==
    << self.start_rotation, self.end_rotation, self.start_target, self.end_target,
       self.initial_cam_pos >>
DataPresent == \A i \in 1..5 : TransitionData[i] # None
DataAbsent == \A i \in 1..5 : TransitionData[i] = None

SwitchInFlight ==
    /\ pc = "modal" /\ pc' = "modal"
    /\ event'.type \in KeyTypes
    /\ self.is_transitioning
    /\ self'.mode # self.mode

\* C6: a key event that switches the mode while a transition is in flight ends the
\* transition in that step, leaves theta, phi, distance and the host's pose as they
\* were, and no timer tick after it moves the camera or starts a transition: a tick
\* with no transition in flight changes nothing, and only a click that hits starts one
C6_ModeSwitchCancelsTransition ==
    [][ /\ SwitchInFlight
            => /\ ~self'.is_transitioning
               /\ << self'.theta, self'.phi, self'.distance >>
                      = << self.theta, self.phi, self.distance >>
               /\ Pose(ctx') = Pose(ctx)
        /\ (pc = "modal" /\ pc' = "modal" /\ event'.type = "TIMER"
                /\ ~self.is_transitioning)
            => self' = self /\ Pose(ctx') = Pose(ctx)
        /\ (pc = "modal" /\ ~self.is_transitioning /\ self'.is_transitioning)
            => event'.type = "LEFTMOUSE" /\ event'.value = "PRESS" /\ event'.ray_result
      ]_vars

\* a key event has switched the mode while a transition was in flight
C6_Witness ==
    /\ pc = "modal"
    /\ event.type \in KeyTypes
    /\ was.is_transitioning /\ was.mode # self.mode
    /\ ~self.is_transitioning

\* the mode the held modifiers resolve to, None when alt is not held
Resolved(alt, ctrl, shift) ==
    CASE alt /\ ctrl /\ shift -> "PAN"
      [] alt /\ ctrl /\ ~shift -> "ORBIT"
      [] alt /\ ~ctrl -> "FOCUS"
      [] ~alt -> "None"

\* C7: a pointer or key event that does not end the session leaves the mode the held
\* modifiers resolve to, or the mode as it was when alt is not held; a timer tick
\* leaves the mode as it was; a running session is in exactly one of the three modes
C7_ModeFollowsModifiers ==
    [][ /\ (pc = "modal" /\ pc' = "modal" /\ event'.type \in InputEvents)
            => self'.mode = IF Resolved(event'.alt, event'.ctrl, event'.shift) = "None"
                            THEN self.mode
                            ELSE Resolved(event'.alt, event'.ctrl, event'.shift)
        /\ (pc = "modal" /\ event'.type = "TIMER") => self'.mode = self.mode
        /\ pc' = "modal" => self'.mode \in Modes
      ]_vars

\* a pointer event with no modifier held has left the mode PAN
C7_Witness ==
    /\ pc = "modal"
    /\ event.type \in {"LEFTMOUSE", "MOUSEMOVE"}
    /\ ~event.alt /\ ~event.ctrl /\ ~event.shift
    /\ was.mode = "PAN" /\ self.mode = "PAN"

\* the step is a mouse move with the button held, a transition in flight and the mode
\* as it was
MoveInFlight ==
    /\ pc = "modal" /\ pc' = "modal"
    /\ event'.type = "MOUSEMOVE"
    /\ self.mouse_down /\ self.is_transitioning
    /\ self'.mode = self.mode

\* C8: a mouse move with the button held while a transition is in flight changes
\* last_x and last_y and nothing else of the operator, and leaves the host's pose
C8_NoDragInFlight ==
    [][ MoveInFlight
        => /\ self' = [self EXCEPT !.last_x = event'.mouse_region_x,
                                   !.last_y = event'.mouse_region_y]
           /\ Pose(ctx') = Pose(ctx) ]_vars

\* the pointer has moved with the button held while a transition was in flight
C8_Witness ==
    /\ pc = "modal"
    /\ event.type = "MOUSEMOVE"
    /\ was.mouse_down /\ was.is_transitioning /\ was.mode = self.mode
    /\ self.is_transitioning
    /\ << self.last_x, self.last_y >> # PressPosition

\* the last transition that can still complete before the clock's horizon starts here
LastStart == MaxTime - transition_duration

\* a transition is in flight that started early enough to complete within the horizon
InFlight ==
    pc = "modal" /\ self.is_transitioning /\ self.transition_start_time <= LastStart

\* the step is a timer tick that completes the transition in flight
CompletionStep ==
    /\ pc = "modal" /\ pc' = "modal"
    /\ event'.type = "TIMER"
    /\ self.is_transitioning /\ ~self'.is_transitioning

\* C9: a click that hits at P starts a transition towards P from the camera's
\* position; timer ticks leave P and that position as they are; the tick that
\* completes the transition leaves is_transitioning false, the target point P and the
\* distance |position - P|; a tick after that changes nothing; and with ticks
\* delivered, a transition in flight ends: it completes, unless a mode change cancels
\* it, the session ends or a click restarts it beyond the clock's horizon
C9_TransitionCompletes ==
    /\ [][ /\ (pc' = "modal" /\ event'.type = "LEFTMOUSE" /\ event'.value # "RELEASE"
                   /\ event'.ray_result)
               => /\ self'.is_transitioning
                  /\ self'.end_target = event'.ray_location
                  /\ self'.initial_cam_pos = _get_camera_matrix(self', ctx).translation
           /\ (pc = "modal" /\ pc' = "modal" /\ event'.type = "TIMER"
                   /\ self.is_transitioning)
               => /\ self'.end_target = self.end_target
                  /\ self'.initial_cam_pos = self.initial_cam_pos
           /\ CompletionStep
               => /\ self'.target_point = self.end_target
                  /\ self'.distance = Length[VSub(self.initial_cam_pos, self.end_target)]
           /\ (pc = "modal" /\ pc' = "modal" /\ event'.type = "TIMER"
                   /\ ~self.is_transitioning)
               => self' = self
         ]_vars
    /\ InFlight ~> ~InFlight

\* a tick has completed a transition: the target is the point the click hit
C9_Witness ==
    /\ pc = "modal"
    /\ event.type = "TIMER"
    /\ was.is_transitioning /\ ~self.is_transitioning
    /\ self.target_point = self.end_target /\ self.target_point \in HitPoints
    /\ self.distance = Length[VSub(self.initial_cam_pos, self.target_point)]

\* C10: the progress a tick computes for the transition in flight is
\* clamp((now - t0) / transition_duration, 0, 1), within [0, 1] for every reading of
\* the clock
C10_ProgressClamped ==
    (pc = "modal" /\ event.type = "TIMER" /\ was.is_transitioning)
    => /\ transition_progress(self, ctx.clock) >= 0
       /\ transition_progress(self, ctx.clock) <= 1000
       /\ transition_progress(self, ctx.clock)
              = Max(0, Min(1000, ((ctx.clock - self.transition_start_time) * 1000)
                                     \div transition_duration))

\* the step is a mouse move that runs the ORBIT drag handler
OrbitDragStep ==
    /\ pc = "modal" /\ pc' = "modal"
    /\ event'.type = "MOUSEMOVE"
    /\ self.mode = "ORBIT" /\ self'.mode = "ORBIT"
    /\ self.mouse_down /\ ~self.is_transitioning /\ self.target_point # None
    /\ (event'.mouse_region_x # self.last_x \/ event'.mouse_region_y # self.last_y)

\* C11: after an ORBIT drag with the target defined and no transition in flight, phi
\* lies within [radians(90 - limit), pi - radians(90 - limit)], whatever dx and dy,
\* the inversion settings and phi before the drag
C11_OrbitDragKeepsPhiInRange ==
    [][ OrbitDragStep
        => /\ self'.phi >= Radians(90 - self'.prefs.orbit_elevation_limit)
           /\ self'.phi <= PI - Radians(90 - self'.prefs.orbit_elevation_limit) ]_vars

\* an ORBIT drag has run and the limit has stopped phi at the upper end of its range
C11_Witness ==
    /\ pc = "modal"
    /\ event.type = "MOUSEMOVE"
    /\ was.mode = "ORBIT" /\ self.mode = "ORBIT"
    /\ was.mouse_down /\ ~was.is_transitioning /\ was.target_point # None
    /\ event.mouse_region_y # PressPosition[2]
    /\ self.phi = PI - Radians(90 - self.prefs.orbit_elevation_limit)

\* C12: an ORBIT drag with dy = 0 and invert_horizontal off, with the target defined
\* and no transition in flight, lowers theta by exactly dx * orbit_sensitivity and
\* leaves phi, the distance and the target point as they were
C12_HorizontalOrbitDrag ==
    [][ (OrbitDragStep /\ event'.mouse_region_y = self.last_y
             /\ ~self.prefs.invert_horizontal)
        => /\ self'.theta = self.theta - (event'.mouse_region_x - self.last_x)
                                            * self.prefs.orbit_sensitivity
           /\ self'.phi = self.phi
           /\ self'.distance = self.distance
           /\ self'.target_point = self.target_point ]_vars

\* the step is a click that hits geometry while a transition is in flight
ClickInFlight ==
    /\ pc = "modal" /\ pc' = "modal"
    /\ self.is_transitioning
    /\ event'.type = "LEFTMOUSE" /\ event'.value = "PRESS" /\ event'.ray_result

\* C13: a click that hits Q while a transition is in flight replaces that transition:
\* one transition is in flight, its end target and the target point are Q, it starts
\* at the time of the click from the camera's position at the click; the ticks after
\* it keep Q as the end target and move the target point nowhere but to Q
C13_ClickOverwritesTransition ==
    [][ /\ ClickInFlight
            => /\ self'.is_transitioning
               /\ self'.end_target = event'.ray_location
               /\ self'.target_point = event'.ray_location
               /\ self'.transition_start_time = ctx'.clock
               /\ self'.initial_cam_pos = _get_camera_matrix(self, ctx).translation
               /\ self'.end_rotation
                      = to_track_quat[VSub(event'.ray_location, self'.initial_cam_pos)]
        /\ (pc = "modal" /\ pc' = "modal" /\ event'.type = "TIMER")
            => /\ self'.end_target = self.end_target
               /\ self'.transition_start_time = self.transition_start_time
               /\ self'.target_point \in {self.target_point, self.end_target}
      ]_vars

\* a click has hit Q while a transition towards another point P, started earlier, was
\* in flight
C13_Witness ==
    /\ pc = "modal"
    /\ event.type = "LEFTMOUSE" /\ event.value = "PRESS" /\ event.ray_result
    /\ was.is_transitioning
    /\ was.target_point \in HitPoints /\ was.target_point # event.ray_location
    /\ self.is_transitioning /\ self.end_target = event.ray_location
    /\ self.transition_start_time > 0

\* C14: invoke in a context that is not a 3D viewport returns CANCELLED and raises
\* nothing, leaves the operator as it was, arms no timer, publishes no status text and
\* registers no modal handler
C14_InvokeOutsideViewport ==
    [][ (pc = "idle" /\ ctx.area_type # "VIEW_3D")
        => /\ pc' = "finished"
           /\ ctx'.exception = ""
           /\ self' = [self EXCEPT !.camera_mode = self'.camera_mode]
           /\ ctx'.timers = {} /\ ctx'.timers_added = 0
           /\ ctx'.status_text = "None"
           /\ ctx'.modal_handlers = 0 ]_vars

\* the events the host hands to modal()
ModalEvents == InputEvents \cup {"TIMER"}

\* C15: with the viewport lost, the next event of any type handed to modal() ends the
\* session by finish(): the status text is cleared and the timer removed once, and
\* nothing else of the operator or of the host's pose changes, so no transition is
\* advanced, no mode changed and no click or drag handled for that event
C15_ViewportLossEndsSession ==
    [][ (pc = "modal" /\ ctx.area_type # "VIEW_3D" /\ event'.type \in ModalEvents)
        => /\ pc' = "finished"
           /\ self' = [self EXCEPT !._timer = 0]
           /\ Pose(ctx') = Pose(ctx)
           /\ ctx'.status_text = "None"
           /\ ctx'.timers = {} /\ ctx'.timer_removals = ctx.timer_removals + 1
           /\ ctx'.modal_handlers = 0
           /\ ctx'.exception = "" ]_vars

\* a timer tick has ended the session in a lost viewport while a transition was in
\* flight, and has not advanced or completed the transition
C15_Witness ==
    /\ pc = "finished"
    /\ ctx.area_type # "VIEW_3D"
    /\ event.type = "TIMER"
    /\ was.is_transitioning /\ self.is_transitioning
    /\ ctx.clock >= self.transition_start_time + self.transition_duration
    /\ ctx.timers = {}

\* C16: an alt release handed to modal() ends the session from every state of a
\* running session: the mode and every other attribute of the operator but the timer
\* handle stay as they were, a transition in flight is neither advanced nor completed,
\* the timer and the modal handler are gone, and once the session has ended nothing
\* changes any more
C16_AltReleaseEndsSession ==
    [][ /\ (pc = "modal" /\ event'.type = "LEFT_ALT" /\ event'.value = "RELEASE")
            => /\ pc' = "finished"
               /\ self' = [self EXCEPT !._timer = 0]
               /\ Pose(ctx') = Pose(ctx)
               /\ ctx'.status_text = "None"
               /\ ctx'.timers = {} /\ ctx'.modal_handlers = 0
        /\ pc = "finished" => (self' = self /\ ctx' = ctx /\ pc' = pc)
      ]_vars

\* an alt release has ended a session in ORBIT mode with ctrl still held and a
\* transition in flight
C16_Witness ==
    /\ pc = "finished"
    /\ event.type = "LEFT_ALT" /\ event.value = "RELEASE"
    /\ event.ctrl
    /\ was.mode = "ORBIT" /\ self.mode = "ORBIT"
    /\ was.is_transitioning /\ self.is_transitioning
    /\ self._timer = 0

\* C17: a press whose raycast misses in PAN mode sets the dragging flag and the last
\* pointer position and changes nothing else: the target point, theta, phi, the
\* distance, a transition in flight and the host's pose are as before; the click that
\* starts a session in PAN mode and misses leaves the target at the view's pivot and
\* starts no transition
C17_PanMissIsNoOp ==
    [][ /\ (pc = "modal" /\ pc' = "modal" /\ self.mode = "PAN" /\ self'.mode = "PAN"
                /\ event'.type = "LEFTMOUSE" /\ event'.value = "PRESS"
                /\ ~event'.ray_result)
            => /\ self' = [self EXCEPT !.mouse_down = TRUE,
                                        !.last_x = event'.mouse_region_x,
                                        !.last_y = event'.mouse_region_y]
               /\ Pose(ctx') = Pose(ctx)
        /\ (pc = "idle" /\ pc' = "modal" /\ self'.mode = "PAN" /\ ~event'.ray_result)
            => /\ self'.target_point = ctx.view_location
               /\ self'.distance = ctx.view_distance
               /\ ~self'.is_transitioning
               /\ Pose(ctx') = Pose(ctx)
      ]_vars

\* a press has missed in PAN mode while a transition was in flight, and the transition
\* and the target are still there
C17_Witness ==
    /\ pc = "modal"
    /\ event.type = "LEFTMOUSE" /\ event.value = "PRESS" /\ ~event.ray_result
    /\ was.mode = "PAN" /\ self.mode = "PAN"
    /\ was.is_transitioning /\ self.is_transitioning
    /\ self.target_point = was.target_point /\ self.target_point \in HitPoints
    /\ self.mouse_down

\* finish() called on what a call of finish() has left
finished_again(r) == finish(r.self, r.ctx)

\* C18: finish() called a second time leaves everything as the first call left it. From
\* every state of a running session two calls give what one call gives: the status
\* text cleared, the timer removed once, the result CANCELLED; and on a session that
\* has ended, finish() changes nothing and removes no timer
C18_FinishIdempotent ==
    /\ pc = "modal"
           => /\ finished_again(finish(self, ctx)) = finish(self, ctx)
              /\ finish(self, ctx).ctx.timers = {}
              /\ finish(self, ctx).ctx.timer_removals = ctx.timer_removals + 1
              /\ finish(self, ctx).ctx.status_text = "None"
              /\ finish(self, ctx).ctx.exception = ""
    /\ pc = "finished"
           => finish(self, ctx) = [ self |-> self, ctx |-> ctx, result |-> "CANCELLED" ]

\* finish() has ended a session and removed its timer, and a second call would remove
\* none
C18_Witness ==
    /\ pc = "finished"
    /\ ctx.timers_added = 1 /\ ctx.timer_removals = 1 /\ self._timer = 0
    /\ ctx.status_text = "None"
    /\ finish(self, ctx).ctx.timer_removals = 1

\* C19: each of the three drag handlers, called on an operator with no target point,
\* returns with the operator and the host as they were and raises nothing
C19_DragWithoutTargetIsNoOp ==
    (pc = "modal" /\ self.target_point = None)
    => \A d \in MousePositions :
           /\ _handle_focus_drag(self, ctx, d[1], d[2]) = [ self |-> self, ctx |-> ctx ]
           /\ _handle_orbit_drag(self, ctx, d[1], d[2]) = [ self |-> self, ctx |-> ctx ]
           /\ _handle_pan_drag(self, ctx, d[1], d[2]) = [ self |-> self, ctx |-> ctx ]

\* the step switches the mode of an operator that has no target point
SwitchWithoutTarget ==
    /\ pc = "modal" /\ pc' = "modal"
    /\ self.target_point = None
    /\ self'.mode # self.mode

\* C20: a switch into ORBIT or PAN with no target point leaves the target point at the
\* view's pivot: _set_mode has defined it before the event that switched is handled,
\* and the step ends as that handling leaves it; a switch into FOCUS leaves the target
\* undefined; a session in PAN mode always has a target
C20_SwitchDefinesTarget ==
    [][ /\ (SwitchWithoutTarget /\ self'.mode \in {"ORBIT", "PAN"})
            => /\ self'.target_point = ctx.view_location
               /\ _set_mode(self, ctx, self'.mode).self.target_point = ctx.view_location
               /\ handled(_set_mode(self, ctx, self'.mode).self,
                           _set_mode(self, ctx, self'.mode).ctx, event').self = self'
        /\ (SwitchWithoutTarget /\ self'.mode = "FOCUS")
            => self'.target_point = None
        /\ (pc' = "modal" /\ self'.mode = "PAN") => self'.target_point # None
      ]_vars

\* a key has switched a session with no target point from FOCUS into ORBIT, and the
\* target point is the view's pivot
C20_Witness ==
    /\ pc = "modal"
    /\ event.type \in KeyTypes
    /\ was.target_point = None /\ was.mode = "FOCUS" /\ self.mode = "ORBIT"
    /\ self.target_point = ctx.view_location

\* C21: the transition advances only on a timer tick. A pointer or key event handed to
\* modal() while a transition is in flight leaves the host's pose, theta, phi and the
\* distance as they were: it neither interpolates nor completes; whatever changes the
\* pose while a transition is in flight is a timer tick; and a timer tick with no
\* transition in flight leaves the operator and the pose as they were
C21_AdvanceOnlyOnTick ==
    [][ /\ (pc = "modal" /\ self.is_transitioning /\ event'.type \in InputEvents)
            => /\ Pose(ctx') = Pose(ctx)
               /\ << self'.theta, self'.phi, self'.distance >>
                      = << self.theta, self.phi, self.distance >>
        /\ (pc = "modal" /\ self.is_transitioning /\ Pose(ctx') # Pose(ctx))
            => event'.type = "TIMER"
        /\ (pc = "modal" /\ pc' = "modal" /\ ~self.is_transitioning
                /\ event'.type = "TIMER")
            => /\ self' = self
               /\ Pose(ctx') = Pose(ctx)
               /\ ~ctx'.redraw_tagged
      ]_vars

\* a button press has been handled while a transition was in flight and part of the
\* way: the view's pivot is between where it started and the point the click had hit
C21_Witness ==
    /\ pc = "modal"
    /\ event.type = "LEFTMOUSE" /\ event.value = "PRESS"
    /\ was.is_transitioning
    /\ ctx.clock > 0
    /\ ctx.view_location \notin (HitPoints \cup {<< 0, 0, 0 >>})

\* the step is a mouse move that modal() handles
MouseMoveStep ==
    pc = "modal" /\ pc' = "modal" /\ event'.type = "MOUSEMOVE"

\* C22: after every mouse move that modal() handles, last_x and last_y are the
\* event's pointer position, in every mode, with or without the button held, a
\* transition in flight or a drag handler run; a mouse move changes theta, phi, the
\* distance, the target point or the host's pose only with mouse_down set; and
\* mouse_down is set exactly while the host holds the button down: since a click-drag
\* started the session or a press was handled, with no release handled since
C22_LastPointerFollowsMove ==
    [][ /\ MouseMoveStep
            => /\ self'.last_x = event'.mouse_region_x
               /\ self'.last_y = event'.mouse_region_y
        /\ (MouseMoveStep /\ ~self.mouse_down)
            => /\ self' = [self EXCEPT !.last_x = event'.mouse_region_x,
                                        !.last_y = event'.mouse_region_y]
               /\ Pose(ctx') = Pose(ctx)
               /\ ~ctx'.redraw_tagged
        /\ pc' = "modal" => self'.mouse_down = ctx'.button_down
      ]_vars

\* a mouse move with the button up and a transition in flight has been handled, and
\* the pointer position it brought is the last one recorded
C22_Witness ==
    /\ pc = "modal"
    /\ event.type = "MOUSEMOVE"
    /\ ~was.mouse_down /\ ~self.mouse_down
    /\ was.is_transitioning
    /\ << self.last_x, self.last_y >> = << event.mouse_region_x, event.mouse_region_y >>
    /\ << self.last_x, self.last_y >> # PressPosition

\* C23: in every state of a running session in PAN mode the target point is defined,
\* and no step has raised the TypeError of _handle_pan_drag adding the pan vector to
\* an absent target
C23_PanHasTarget ==
    /\ (pc = "modal" /\ self.mode = "PAN") => self.target_point # None
    /\ ctx.exception # "TypeError"

\* a PAN drag has run and has moved the target point, in a session that a click that
\* missed had started
C23_Witness ==
    /\ pc = "modal"
    /\ event.type = "MOUSEMOVE"
    /\ was.mode = "PAN" /\ self.mode = "PAN"
    /\ was.mouse_down /\ ~was.is_transitioning
    /\ self.end_target = None
    /\ was.target_point # None /\ self.target_point # was.target_point

====
